---- MODULE Spec2Model ----
(***************************************************************************)
(* One invocation of generate-github-app-token: main calls Generator.Run   *)
(* with os.Args, os.Stdout and os.Stderr (cmd main, generator.go).         *)
(*                                                                         *)
(* Strings that the code inspects (the -repo value, the issuer) are        *)
(* sequences of one-character strings; error messages are sequences of     *)
(* string pieces, so that wrapping (fmt.Errorf with %w) is concatenation.  *)
(* Times and durations are counted in ticks, SubSec ticks to the second:   *)
(* time.Now() and a time.Duration can fall between whole seconds.  An      *)
(* opaque token string of the remote API is a record [opaque |-> s].       *)
(***************************************************************************)
EXTENDS Integers, Sequences, FiniteSets, TLC

VARIABLES
    argv,               \* os.Args[1:], the flag arguments of this invocation
    g,                  \* the Generator's fields
    pc,                 \* position of the invocation in the code
    err,                \* the error run() returns (NoError: nil)
    help,               \* fset.Parse returned flag.ErrHelp
    stdout,             \* writes to os.Stdout, in order
    stderr,             \* writes to os.Stderr, in order
    events,             \* file reads and remote calls, in order
    rawKey,             \* bytes read from the private key file
    now,                \* time.Now() captured by generateAppToken
    token,              \* claims of the jwt.Token handed to the builder
    appToken,           \* the signed app token
    installation,       \* id of the installation found
    installationToken,  \* token returned by CreateInstallationToken
    exitCode,           \* Run's variable exitCode
    exited              \* status passed to os.Exit

vars == <<argv, g, pc, err, help, stdout, stderr, events, rawKey, now, token,
          appToken, installation, installationToken, exitCode, exited>>

Nil == "nil"            \* no string
None == <<>>            \* no value; a value x that is present is <<x>>

----------------------------------------------------------------------------
(* Bounds of the model *)

MaxArgs == 3        \* number of flag arguments on the command line
SubSec == 2         \* clock ticks per second

(* Inputs *)

Second == SubSec
Minute == 60 * Second   \* time.Minute, the default of -liveness

AppIDs == {-7, 0, 12}
KeyPaths == {"app.pem"}
Livenesses == {-1, 0, 3}
Repos == { <<"a", "b">>, <<"a", "/", "b">>, <<"a", "/", "b", "/", "c">>,
           <<"/", "b">>, <<"a", "/">> }

Args ==
    [name : {"id"}, value : AppIDs] \cup
    [name : {"private-key"}, value : KeyPaths] \cup
    [name : {"liveness"}, value : Livenesses] \cup
    [name : {"repo"}, value : Repos] \cup
    [name : {"h", "bogus"}, value : {Nil}]

RECURSIVE SeqsUpTo(_, _)
SeqsUpTo(S, n) ==
    IF n = 0 THEN { <<>> }
    ELSE LET shorter == SeqsUpTo(S, n - 1)
         IN shorter \cup { Append(s, a) : s \in shorter, a \in S }

(* What the private key file can hold, and the moments time.Now() can return *)
KeyFiles == {"rsa", "rsaTiny", "ec", "garbage"}
Times == {100 * Second, 100 * Second + 1}

(* What the remote API can answer *)
InstallationIDs == {999}
RemoteTokens == { [opaque |-> "ghs_abc"] }

----------------------------------------------------------------------------
(* Errors *)

NewError(type, msg) == [type |-> type, msg |-> msg]

\* a nil error
NoError == NewError("nil", <<>>)

\* fmt.Errorf("<prefix>: %w", e); prefix is a sequence of pieces
Wrap(prefix, e) == NewError("*fmt.wrapError", prefix \o e.msg)

\* the dynamic error types that have a method ExitCode() int
ExitCoders == {}

\* flag.ErrHelp
ErrHelp == NewError("*errors.errorString", <<"flag: help requested">>)

----------------------------------------------------------------------------
(* Pure helpers *)

Digits == <<"0", "1", "2", "3", "4", "5", "6", "7", "8", "9">>

RECURSIVE FormatUint(_)
FormatUint(n) ==
    IF n < 10 THEN <<Digits[n + 1]>>
    ELSE FormatUint(n \div 10) \o <<Digits[(n % 10) + 1]>>

\* strconv.FormatInt(i, 10)
FormatInt(i) == IF i < 0 THEN <<"-">> \o FormatUint(-i) ELSE FormatUint(i)

\* strings.Cut(s, "/"): split around the first "/"
Cut(s) ==
    LET hits == { i \in 1..Len(s) : s[i] = "/" }
    IN IF hits = {}
       THEN [before |-> s, after |-> <<>>, found |-> FALSE]
       ELSE LET i == CHOOSE j \in hits : \A k \in hits : j <= k
            IN [before |-> SubSeq(s, 1, i - 1),
                after |-> SubSeq(s, i + 1, Len(s)),
                found |-> TRUE]

\* BuildClaims with the clock read a second time, later, for the expiration
BuildClaims_SecondClock(appID, t, liveness) ==
    [c \in {"iss", "iat", "exp"} |->
        CASE c = "iss" -> FormatInt(appID)
          [] c = "iat" -> t
          [] c = "exp" -> (t + 1) + liveness]

\* the claims handed to jwt.NewBuilder(): Issuer, IssuedAt, Expiration
BuildClaims(appID, t, liveness) ==
    [c \in {"iss", "iat", "exp"} |->
        CASE c = "iss" -> FormatInt(appID)
          [] c = "iat" -> t
          [] c = "exp" -> t + liveness]

\* a time claim in the payload jwt.Sign serialises: a JSON NumericDate, which
\* the jwt package writes in whole seconds since the epoch (its default
\* precision), dropping the fraction
NumericDate(t) == t \div Second

\* the payload of the signed token
Payload(claims) ==
    [c \in DOMAIN claims |->
        IF c \in {"iat", "exp"} THEN NumericDate(claims[c]) ELSE claims[c]]

\* jwt.Sign(token, jwt.WithKey(jwa.RS256, key))
SignedToken(claims, key) ==
    [alg |-> "RS256", claims |-> Payload(claims), key |-> key]

----------------------------------------------------------------------------
(* Flag parsing: flag.FlagSet with ContinueOnError, output on os.Stderr *)

FlagDefaults ==
    [privateKeyPath |-> "", appID |-> 0, tokenLiveness |-> Minute,
     installedRepository |-> <<>>]

FlagWrite(text) == [by |-> "flag", text |-> text]

\* FlagSet.usage(): the header, then PrintDefaults, one write per flag
UsageOutput ==
    << FlagWrite(<<"Usage of generate-github-app-token:">>),
       FlagWrite(<<"-id">>), FlagWrite(<<"-liveness">>),
       FlagWrite(<<"-private-key">>), FlagWrite(<<"-repo">>) >>

RECURSIVE FlagSetParse(_, _)
FlagSetParse(args, gg) ==
    IF args = <<>> THEN [g |-> gg, err |-> NoError, output |-> <<>>]
    ELSE LET a == Head(args)
         IN CASE a.name = "id" ->
                   FlagSetParse(Tail(args), [gg EXCEPT !.appID = a.value])
              [] a.name = "private-key" ->
                   FlagSetParse(Tail(args), [gg EXCEPT !.privateKeyPath = a.value])
              [] a.name = "liveness" ->
                   FlagSetParse(Tail(args), [gg EXCEPT !.tokenLiveness = a.value])
              [] a.name = "repo" ->
                   FlagSetParse(Tail(args), [gg EXCEPT !.installedRepository = a.value])
              [] a.name = "h" ->
                   [g |-> gg, err |-> ErrHelp, output |-> UsageOutput]
              [] OTHER ->
                   LET e == NewError("*fmt.wrapError",
                                     <<"flag provided but not defined: -", a.name>>)
                   IN [g |-> gg, err |-> e,
                       output |-> <<FlagWrite(e.msg)>> \o UsageOutput]

----------------------------------------------------------------------------
(* The invocation *)

Init ==
    /\ argv \in SeqsUpTo(Args, MaxArgs)
    /\ g = [privateKeyPath |-> "", appID |-> 0, tokenLiveness |-> 0,
            installedRepository |-> <<>>]
    /\ pc = "Run"
    /\ err = NoError
    /\ help = FALSE
    /\ stdout = <<>>
    /\ stderr = <<>>
    /\ events = <<>>
    /\ rawKey = Nil
    /\ now = None
    /\ token = None
    /\ appToken = None
    /\ installation = None
    /\ installationToken = None
    /\ exitCode = 0
    /\ exited = None

\* run() returns e to Run
Return(e) ==
    /\ err' = e
    /\ pc' = "Run_ret"

\* run, lines 52-62: define the flags and parse argv[1:]
ParseFlags ==
    /\ pc = "Run"
    /\ LET r == FlagSetParse(argv, FlagDefaults)
       IN /\ g' = r.g
          /\ stderr' = stderr \o r.output
          /\ IF r.err = NoError
             THEN /\ pc' = "required"
                  /\ UNCHANGED <<err, help>>
             ELSE IF r.err = ErrHelp
             THEN /\ help' = TRUE
                  /\ Return(NoError)
             ELSE /\ Return(r.err)
                  /\ UNCHANGED help
    /\ UNCHANGED <<argv, stdout, events, rawKey, now, token, appToken,
                   installation, installationToken, exitCode, exited>>

\* RequiredError without the check of -id
RequiredError_KeyOnly(gg) ==
    IF gg.privateKeyPath = ""
    THEN NewError("*errors.errorString", <<"-private-key is required">>)
    ELSE NoError

\* the checks of run, lines 63-68
RequiredError(gg) ==
    IF gg.privateKeyPath = ""
    THEN NewError("*errors.errorString", <<"-private-key is required">>)
    ELSE IF gg.appID = 0
    THEN NewError("*errors.errorString", <<"-id is required">>)
    ELSE NoError

CheckRequired ==
    /\ pc = "required"
    /\ IF RequiredError(g) # NoError
       THEN Return(RequiredError(g))
       ELSE /\ pc' = "ReadFile"
            /\ UNCHANGED err
    /\ UNCHANGED <<argv, g, help, stdout, stderr, events, rawKey, now, token,
                   appToken, installation, installationToken, exitCode, exited>>

\* an error of generateAppToken as run wraps it, line 71
AppTokenError(e) == Wrap(<<"generateAuthToken(): ">>, e)

\* generateAppToken, lines 103-106: read the private key file
ReadFile ==
    /\ pc = "ReadFile"
    /\ events' = Append(events, [op |-> "ReadFile", arg |-> g.privateKeyPath, auth |-> None])
    /\ \/ \E bytes \in KeyFiles :
            /\ rawKey' = bytes
            /\ pc' = "ParseKey"
            /\ UNCHANGED err
       \/ /\ Return(AppTokenError(
                 Wrap(<<"ioutil.ReadFile(", g.privateKeyPath, "): ">>,
                      NewError("*fs.PathError", <<"no such file or directory">>))))
          /\ UNCHANGED rawKey
    /\ UNCHANGED <<argv, g, help, stdout, stderr, now, token, appToken,
                   installation, installationToken, exitCode, exited>>

\* jwk.ParseKey(rawKey, jwk.WithPEM(true)) and combinedKey.Raw(&key)
KeyError(bytes) ==
    CASE bytes = "garbage" ->
           Wrap(<<"jwk.ParseKey(): ">>,
                NewError("*fmt.wrapError", <<"failed to parse PEM encoded key">>))
      [] bytes = "ec" ->
           Wrap(<<"jwk.Key.Raw(): ">>,
                NewError("*fmt.wrapError", <<"failed to assign to rsa.PrivateKey">>))
      [] OTHER -> NoError

\* generateAppToken, lines 107-114: parse the key, take it as an RSA key
ParseKey ==
    /\ pc = "ParseKey"
    /\ IF KeyError(rawKey) # NoError
       THEN Return(AppTokenError(KeyError(rawKey)))
       ELSE /\ pc' = "BuildToken"
            /\ UNCHANGED err
    /\ UNCHANGED <<argv, g, help, stdout, stderr, events, rawKey, now, token,
                   appToken, installation, installationToken, exitCode, exited>>

\* generateAppToken, lines 115-123: capture the time, build the claims
BuildToken ==
    /\ pc = "BuildToken"
    /\ \E t \in Times :
          /\ now' = <<t>>
          /\ token' = <<BuildClaims(g.appID, t, g.tokenLiveness)>>
    /\ pc' = "Sign"
    /\ UNCHANGED <<argv, g, err, help, stdout, stderr, events, rawKey,
                   appToken, installation, installationToken, exitCode, exited>>

\* jwt.Sign fails on a key too short for an RS256 signature
SignError(key) ==
    IF key = "rsaTiny"
    THEN NewError("*fmt.wrapError", <<"failed to sign payload">>)
    ELSE NoError

\* generateAppToken, line 124, and run, lines 69-72
Sign ==
    /\ pc = "Sign"
    /\ IF SignError(rawKey) # NoError
       THEN /\ Return(AppTokenError(SignError(rawKey)))
            /\ UNCHANGED appToken
       ELSE /\ appToken' = <<SignedToken(token[1], rawKey)>>
            /\ pc' = "output"
            /\ UNCHANGED err
    /\ UNCHANGED <<argv, g, help, stdout, stderr, events, rawKey, now, token,
                   installation, installationToken, exitCode, exited>>

\* lines 47-49
shouldGenerateInstallationToken(gg) == gg.installedRepository # <<>>

\* run, lines 79-82: print the app token
EmitAppToken ==
    /\ pc = "output"
    /\ ~shouldGenerateInstallationToken(g)
    /\ stdout' = Append(stdout, appToken[1])
    /\ Return(NoError)
    /\ UNCHANGED <<argv, g, help, stderr, events, rawKey, now, token, appToken,
                   installation, installationToken, exitCode, exited>>

\* an error of generateInstallationToken as run wraps it, line 76
InstallationTokenError(e) == Wrap(<<"generateInstallationToken(): ">>, e)

\* RepositoryNameError with the result of strings.Cut ignored
RepositoryNameError_Unchecked(repository) == NoError

\* generateInstallationToken, lines 87-90: is the repository name acceptable
RepositoryNameError(repository) ==
    IF ~Cut(repository).found
    THEN NewError("*fmt.wrapError", <<"malformed repository name: ">> \o repository)
    ELSE NoError

\* run, line 73, and generateInstallationToken, lines 86-90
CutRepository ==
    /\ pc = "output"
    /\ shouldGenerateInstallationToken(g)
    /\ IF RepositoryNameError(g.installedRepository) # NoError
       THEN Return(InstallationTokenError(RepositoryNameError(g.installedRepository)))
       ELSE /\ pc' = "FindRepositoryInstallation"
            /\ UNCHANGED err
    /\ UNCHANGED <<argv, g, help, stdout, stderr, events, rawKey, now, token,
                   appToken, installation, installationToken, exitCode, exited>>

\* the bearer credential of the client built on line 86
Bearer == appToken

\* FindRepositoryInstallation with a failed lookup tried a second time
FindRepositoryInstallation_Retry ==
    /\ pc = "FindRepositoryInstallation"
    /\ LET c == Cut(g.installedRepository)
       IN events' = Append(events, [op |-> "FindRepositoryInstallation",
                                    arg |-> <<c.before, c.after>>,
                                    auth |-> Bearer])
    /\ \/ \E id \in InstallationIDs :
            /\ installation' = <<id>>
            /\ pc' = "CreateInstallationToken"
            /\ UNCHANGED err
       \/ /\ IF Len(events) < 2
             THEN UNCHANGED <<pc, err>>
             ELSE Return(Wrap(<<"generateInstallationToken(): ",
                                "Apps.FindRepositoryInstallation(): ">>,
                              NewError("*github.ErrorResponse", <<"404 Not Found">>)))
          /\ UNCHANGED installation
    /\ UNCHANGED <<argv, g, help, stdout, stderr, rawKey, now, token, appToken,
                   installationToken, exitCode, exited>>

\* generateInstallationToken, lines 91-94
FindRepositoryInstallation ==
    /\ pc = "FindRepositoryInstallation"
    /\ LET c == Cut(g.installedRepository)
       IN events' = Append(events, [op |-> "FindRepositoryInstallation",
                                    arg |-> <<c.before, c.after>>,
                                    auth |-> Bearer])
    /\ \/ \E id \in InstallationIDs :
            /\ installation' = <<id>>
            /\ pc' = "CreateInstallationToken"
            /\ UNCHANGED err
       \/ /\ Return(InstallationTokenError(
                 Wrap(<<"Apps.FindRepositoryInstallation(): ">>,
                      NewError("*github.ErrorResponse", <<"404 Not Found">>))))
          /\ UNCHANGED installation
    /\ UNCHANGED <<argv, g, help, stdout, stderr, rawKey, now, token, appToken,
                   installationToken, exitCode, exited>>

\* CreateInstallationToken with the token printed before the error check
CreateInstallationToken_EmitFirst ==
    /\ pc = "CreateInstallationToken"
    /\ events' = Append(events, [op |-> "CreateInstallationToken",
                                 arg |-> installation[1],
                                 auth |-> Bearer])
    /\ \/ \E t \in RemoteTokens :
            /\ installationToken' = <<t>>
            /\ pc' = "EmitInstallationToken"
            /\ UNCHANGED <<err, stdout>>
       \/ /\ stdout' = Append(stdout, [opaque |-> ""])
          /\ Return(Wrap(<<"generateInstallationToken(): ",
                           "Apps.CreateInstallationToken(): ">>,
                         NewError("*github.ErrorResponse", <<"403 Forbidden">>)))
          /\ UNCHANGED installationToken
    /\ UNCHANGED <<argv, g, help, stderr, rawKey, now, token, appToken,
                   installation, exitCode, exited>>

\* generateInstallationToken, lines 95-99
CreateInstallationToken ==
    /\ pc = "CreateInstallationToken"
    /\ events' = Append(events, [op |-> "CreateInstallationToken",
                                 arg |-> installation[1],
                                 auth |-> Bearer])
    /\ \/ \E t \in RemoteTokens :
            /\ installationToken' = <<t>>
            /\ pc' = "EmitInstallationToken"
            /\ UNCHANGED err
       \/ /\ Return(InstallationTokenError(
                 Wrap(<<"Apps.CreateInstallationToken(): ">>,
                      NewError("*github.ErrorResponse", <<"403 Forbidden">>))))
          /\ UNCHANGED installationToken
    /\ UNCHANGED <<argv, g, help, stdout, stderr, rawKey, now, token, appToken,
                   installation, exitCode, exited>>

\* EmitInstallationToken printing the app token it was given
EmitInstallationToken_AppToken ==
    /\ pc = "EmitInstallationToken"
    /\ stdout' = Append(stdout, appToken[1])
    /\ Return(NoError)
    /\ UNCHANGED <<argv, g, help, stderr, events, rawKey, now, token, appToken,
                   installation, installationToken, exitCode, exited>>

\* run, lines 78 and 82: print the installation token
EmitInstallationToken ==
    /\ pc = "EmitInstallationToken"
    /\ stdout' = Append(stdout, installationToken[1])
    /\ Return(NoError)
    /\ UNCHANGED <<argv, g, help, stderr, events, rawKey, now, token, appToken,
                   installation, installationToken, exitCode, exited>>

\* Run, lines 40-42: the exit code an error asks for
ExitCodeOf(e) == IF e.type \in ExitCoders THEN e.code ELSE 0

\* RunReturn with the error printed once more on the way out
RunReturn_WriteTwice ==
    /\ pc = "Run_ret"
    /\ IF err # NoError
       THEN /\ stderr' = stderr \o << [by |-> "Run", text |-> err.msg],
                                      [by |-> "Run", text |-> err.msg] >>
            /\ exitCode' = 0
       ELSE UNCHANGED <<stderr, exitCode>>
    /\ pc' = "Exit"
    /\ UNCHANGED <<argv, g, err, help, stdout, events, rawKey, now, token,
                   appToken, installation, installationToken, exited>>

\* Run, lines 37-44
RunReturn ==
    /\ pc = "Run_ret"
    /\ IF err # NoError
       THEN /\ stderr' = Append(stderr, [by |-> "Run", text |-> err.msg])
            /\ exitCode' = ExitCodeOf(err)
       ELSE UNCHANGED <<stderr, exitCode>>
    /\ pc' = "Exit"
    /\ UNCHANGED <<argv, g, err, help, stdout, events, rawKey, now, token,
                   appToken, installation, installationToken, exited>>

\* main: os.Exit(Run(os.Args))
Exit ==
    /\ pc = "Exit"
    /\ exited' = <<exitCode>>
    /\ pc' = "exited"
    /\ UNCHANGED <<argv, g, err, help, stdout, stderr, events, rawKey, now,
                   token, appToken, installation, installationToken, exitCode>>

Next ==
    \/ ParseFlags
    \/ CheckRequired
    \/ ReadFile
    \/ ParseKey
    \/ BuildToken
    \/ Sign
    \/ EmitAppToken
    \/ CutRepository
    \/ FindRepositoryInstallation
    \/ CreateInstallationToken
    \/ EmitInstallationToken
    \/ RunReturn
    \/ Exit

Spec == Init /\ [][Next]_vars

----------------------------------------------------------------------------
(* Vocabulary of the properties *)

\* run has returned to Run
ReturnedAt == {"Run_ret", "Exit", "exited"}
Returned == pc \in ReturnedAt

\* the process has exited
Terminal == pc = "exited"

RemoteOps == {"FindRepositoryInstallation", "CreateInstallationToken"}
IsRemote(e) == e.op \in RemoteOps
IsFileRead(e) == e.op = "ReadFile"
RemoteCalls == SelectSeq(events, IsRemote)
FileReads == SelectSeq(events, IsFileRead)

\* part occurs in msg as a run of consecutive pieces
Contains(msg, part) ==
    \E i \in 1..(Len(msg) - Len(part) + 1) : SubSeq(msg, i, i + Len(part) - 1) = part

IsRunWrite(w) == w.by = "Run"
IsFlagWrite(w) == w.by = "flag"
RunWrites == SelectSeq(stderr, IsRunWrite)
FlagWrites == SelectSeq(stderr, IsFlagWrite)

\* Run has written the error run returned, and nothing else, to the error stream
ErrorReported == RunWrites = << [by |-> "Run", text |-> err.msg] >>

Slashes(s) == { i \in 1..Len(s) : s[i] = "/" }

\* "owner/name": two non-empty parts around a single "/"
WellFormedRepository(s) ==
    /\ Cardinality(Slashes(s)) = 1
    /\ Len(s) >= 3
    /\ s[1] # "/"
    /\ s[Len(s)] # "/"

MalformedMessage(repository) == <<"malformed repository name: ">> \o repository

----------------------------------------------------------------------------
(* C1: the exit status is 0 when the invocation succeeds and non-zero when *)
(* any step fails, and in every failing case the error message has been    *)
(* written to the error stream.                                            *)
C1_ExitCode ==
    Terminal =>
        /\ err = NoError => exited = <<0>>
        /\ err # NoError => exited # <<0>> /\ ErrorReported

(* C2, as claimed: in every terminal state either exactly one token line   *)
(* is on the output stream and no error was reported, or nothing is on the *)
(* output stream and an error was reported on the error stream.            *)
C2_Original ==
    Terminal =>
        \/ Len(stdout) = 1 /\ err = NoError /\ RunWrites = <<>>
        \/ stdout = <<>> /\ err # NoError /\ ErrorReported

(* C2, amended: no partial success.  A terminal state is one of: one token *)
(* line (the app token or the installation token) and an empty error       *)
(* stream; no output and the error reported by Run; or, after -h, no       *)
(* output, no error and the usage text on the error stream.  At no moment  *)
(* is there both an error and a line on the output stream.                 *)
C2_NoPartialSuccess ==
    /\ err # NoError => stdout = <<>>
    /\ Len(stdout) <= 1
    /\ Terminal =>
        \/ /\ ~help /\ err = NoError /\ stderr = <<>>
           /\ Len(stdout) = 1 /\ stdout \in {appToken, installationToken}
        \/ ~help /\ err # NoError /\ stdout = <<>> /\ ErrorReported
        \/ help /\ err = NoError /\ stdout = <<>> /\ stderr = UsageOutput

\* token creation failed with the app token signed and the installation found
C2_Witness ==
    /\ Terminal /\ err # NoError /\ stdout = <<>>
    /\ appToken # None /\ installation # None /\ installationToken = None
    /\ Len(RemoteCalls) = 2

(* C3: a repository identifier is accepted only if it is two non-empty     *)
(* parts around a single "/": for any other value no remote call is made   *)
(* and generateInstallationToken fails with the malformed-repository-name  *)
(* error.                                                                  *)
C3_OnlyOwnerSlashName ==
    (appToken # None /\ g.installedRepository # <<>>
        /\ ~WellFormedRepository(g.installedRepository)) =>
        /\ RemoteCalls = <<>>
        /\ pc \in ({"output"} \cup ReturnedAt)
        /\ Returned => Contains(err.msg, MalformedMessage(g.installedRepository))

(* C4, as claimed: with a non-empty -repo value that has no "/", the       *)
(* invocation fails with an error whose message contains "malformed        *)
(* repository name: <value>", no remote call is made at any point, and     *)
(* nothing is written to the output stream.                                *)
C4_Original ==
    (g.installedRepository # <<>> /\ Slashes(g.installedRepository) = {}) =>
        /\ RemoteCalls = <<>>
        /\ stdout = <<>>
        /\ Terminal => /\ Contains(err.msg, MalformedMessage(g.installedRepository))
                       /\ ErrorReported

(* C4, amended: with a non-empty -repo value that has no "/", no remote    *)
(* call is made at any point and nothing is written to the output stream;  *)
(* and when the invocation gets as far as a signed app token, it fails     *)
(* with the error "generateInstallationToken(): malformed repository name: *)
(* <value>", which Run writes to the error stream.  (An invocation that    *)
(* stops earlier reports that earlier error, or none after -h.)            *)
C4_NoSlashNoRemoteCall ==
    (g.installedRepository # <<>> /\ Slashes(g.installedRepository) = {}) =>
        /\ RemoteCalls = <<>>
        /\ stdout = <<>>
        /\ pc \notin {"FindRepositoryInstallation", "CreateInstallationToken",
                      "EmitInstallationToken"}
        /\ (Returned /\ appToken # None) =>
              err.msg = <<"generateInstallationToken(): ">>
                            \o MalformedMessage(g.installedRepository)
        /\ (Terminal /\ appToken # None) => ErrorReported

C4_Witness ==
    /\ Terminal /\ appToken # None
    /\ g.installedRepository = <<"a", "b">>
    /\ Contains(err.msg, <<"malformed repository name: ", "a", "b">>)
    /\ ErrorReported /\ RemoteCalls = <<>> /\ stdout = <<>>

\* the errors of the flag parser and of the checks of the required flags
IsValidationError(e) ==
    \/ e.msg \in { <<"-private-key is required">>, <<"-id is required">> }
    \/ Contains(e.msg, <<"flag provided but not defined: -">>)

(* C5, as claimed: when -id is missing (0) or -private-key is missing      *)
(* (empty) the invocation ends with an input-validation error, with no     *)
(* file read, no remote call and nothing on the output stream.             *)
C5_Original ==
    (pc # "Run" /\ (g.appID = 0 \/ g.privateKeyPath = "")) =>
        /\ events = <<>>
        /\ stdout = <<>>
        /\ pc \in ({"required"} \cup ReturnedAt)
        /\ Returned => IsValidationError(err)

(* C5, amended: when -id is missing (0) or -private-key is missing (empty) *)
(* the invocation ends before the private key file is read and before any  *)
(* remote call, with nothing on the output stream; it ends with an         *)
(* input-validation error unless help (-h) was requested, in which case it *)
(* ends with no error.                                                     *)
C5_MissingRequiredFlag ==
    (pc # "Run" /\ (g.appID = 0 \/ g.privateKeyPath = "")) =>
        /\ events = <<>>
        /\ stdout = <<>>
        /\ pc \in ({"required"} \cup ReturnedAt)
        /\ Returned => IF help THEN err = NoError ELSE IsValidationError(err)
        /\ (Terminal /\ ~help) => ErrorReported

\* -private-key given and -id missing: ended by the check of -id
C5_Witness ==
    /\ Terminal /\ g.privateKeyPath # "" /\ g.appID = 0
    /\ err.msg = <<"-id is required">> /\ events = <<>>

\* strconv.ParseInt(s, 10, 64), the inverse of the decimal rendering
DigitValue(c) == CHOOSE d \in 0..9 : Digits[d + 1] = c

RECURSIVE ParseUint(_)
ParseUint(s) ==
    IF s = <<>> THEN 0
    ELSE 10 * ParseUint(SubSeq(s, 1, Len(s) - 1)) + DigitValue(s[Len(s)])

ParseInt(s) == IF Head(s) = "-" THEN 0 - ParseUint(Tail(s)) ELSE ParseUint(s)

\* s is a decimal numeral: an optional "-", digits, no leading zero
IsDecimal(s) ==
    LET ds == IF s # <<>> /\ Head(s) = "-" THEN Tail(s) ELSE s
    IN /\ ds # <<>>
       /\ \A i \in 1..Len(ds) : \E d \in 1..10 : Digits[d] = ds[i]
       /\ Len(ds) > 1 => ds[1] # "0"

(* C6: whenever the invocation reaches the signing step (generateAppToken  *)
(* is called) the app identifier is a positive integer: an -id that is     *)
(* zero or negative is rejected before, and is never the issuer of a       *)
(* signed token.                                                           *)
C6_PositiveAppID ==
    /\ events # <<>> => g.appID > 0
    /\ appToken # None => ParseInt(appToken[1].claims["iss"]) > 0

(* C7, as claimed: in every successful invocation, without -repo the       *)
(* single output line is the signed app token and no remote call was made; *)
(* with -repo the single output line is the installation token returned by *)
(* the token-creation call, not the app token, and the call carried the    *)
(* app token signed in this invocation.                                    *)
C7_Original ==
    (Returned /\ err = NoError) =>
        /\ Len(stdout) = 1
        /\ appToken # None
        /\ IF g.installedRepository = <<>>
           THEN stdout = appToken /\ RemoteCalls = <<>>
           ELSE /\ stdout = installationToken
                /\ stdout # appToken
                /\ Len(RemoteCalls) = 2
                /\ RemoteCalls[2].op = "CreateInstallationToken"
                /\ \A i \in 1..2 : RemoteCalls[i].auth = appToken

(* C7, amended: in every successful invocation that is not a help request  *)
(* (-h), without -repo the single output line is the signed app token and  *)
(* no remote call was made; with -repo the single output line is the       *)
(* installation token returned by the token-creation call, not the app     *)
(* token, and that call and the lookup carried the app token signed in     *)
(* this invocation.  After -h run also returns nil, with no output line,   *)
(* no token and no remote call.                                            *)
C7_ModeSelection ==
    (Returned /\ err = NoError) =>
        IF help
        THEN stdout = <<>> /\ appToken = None /\ events = <<>>
        ELSE /\ Len(stdout) = 1
             /\ appToken # None
             /\ IF g.installedRepository = <<>>
                THEN stdout = appToken /\ RemoteCalls = <<>>
                ELSE /\ stdout = installationToken
                     /\ stdout # appToken
                     /\ Len(RemoteCalls) = 2
                     /\ RemoteCalls[2].op = "CreateInstallationToken"
                     /\ \A i \in 1..2 : RemoteCalls[i].auth = appToken

C7_Witness ==
    /\ Terminal /\ err = NoError /\ ~help
    /\ g.installedRepository = <<"a", "/", "b">>
    /\ stdout = << [opaque |-> "ghs_abc"] >>
    /\ Len(RemoteCalls) = 2

RemoteOpsCalled == [i \in 1..Len(RemoteCalls) |-> RemoteCalls[i].op]

(* C8: the remote calls of an invocation are a prefix of <<installation    *)
(* lookup, token creation>>, each made at most once; token creation is     *)
(* attempted only after the lookup succeeded; when the lookup fails the    *)
(* invocation returns the lookup error and never attempts token creation.  *)
C8_LookupThenCreate ==
    /\ RemoteOpsCalled \in { <<>>, <<"FindRepositoryInstallation">>,
                             <<"FindRepositoryInstallation", "CreateInstallationToken">> }
    /\ Len(RemoteCalls) = 2 =>
          /\ installation # None
          /\ installation[1] \in InstallationIDs
          /\ RemoteCalls[2].arg = installation[1]
    /\ (Len(RemoteCalls) >= 1 /\ installation = None) =>
          /\ Returned
          /\ Len(RemoteCalls) = 1
          /\ Contains(err.msg, <<"Apps.FindRepositoryInstallation(): ">>)

\* the lookup failed and the invocation ended
C8_Witness ==
    /\ Terminal /\ installation = None
    /\ RemoteOpsCalled = <<"FindRepositoryInstallation">>
    /\ Contains(err.msg, <<"Apps.FindRepositoryInstallation(): ">>)

(* C9, as claimed: in every invocation, -h and flag parse errors included, *)
(* the standard output and the standard error are each written at most     *)
(* once, the writes of the flag parser counted.                            *)
C9_Original ==
    /\ Len(stdout) <= 1
    /\ Len(stderr) <= 1

(* C9, amended: in every invocation the standard output is written at most *)
(* once and Run writes to the standard error at most once (the error       *)
(* message).  When the flags parse, that is the only write to the standard *)
(* error.  On -h and on a flag parse error the flag parser itself writes   *)
(* the usage text to the standard error, one write for the header and one  *)
(* per flag, after the error message on a parse error, which Run then      *)
(* writes once more.                                                       *)
C9_StreamWrites ==
    /\ Len(stdout) <= 1
    /\ Len(RunWrites) <= 1
    /\ stderr = FlagWrites \o RunWrites
    /\ pc # "Run" =>
          LET parsed == FlagSetParse(argv, FlagDefaults)
          IN CASE parsed.err = NoError -> FlagWrites = <<>> /\ Len(stderr) <= 1
               [] parsed.err = ErrHelp -> stderr = UsageOutput
               [] OTHER -> /\ Len(FlagWrites) = 1 + Len(UsageOutput)
                           /\ Terminal => Len(stderr) = 2 + Len(UsageOutput)

\* a failure after the flags parsed: one write, by Run
C9_Witness ==
    /\ Terminal /\ err # NoError /\ events # <<>>
    /\ Len(stderr) = 1 /\ stdout = <<>>

(* C10, as claimed: the signed app token carries exactly the claims       *)
(* issuer = decimal string of the app id, issued-at = t and expiration =   *)
(* t + liveness for the one captured time t, so that expiration minus      *)
(* issued-at is the liveness exactly; with a liveness of zero or less the  *)
(* token is still produced and its expiration is not after its issued-at.  *)
C10_Original ==
    appToken # None =>
        LET c == appToken[1].claims
        IN /\ DOMAIN c = {"iss", "iat", "exp"}
           /\ ParseInt(c["iss"]) = g.appID
           /\ (c["exp"] - c["iat"]) * Second = g.tokenLiveness
           /\ g.tokenLiveness <= 0 => c["exp"] <= c["iat"]

(* C10, amended: the token is built with exactly the claims issuer =       *)
(* decimal string of the app id, issued-at = t and expiration =            *)
(* t + liveness for the one captured time t, and no other claim.  The      *)
(* signed token carries the issuer and the two times as whole seconds,     *)
(* rounded down; so expiration minus issued-at equals the liveness exactly *)
(* when the liveness is a whole number of seconds, and is within one       *)
(* second of it otherwise.  With a liveness of zero or less the token is   *)
(* still produced, and its expiration is not after its issued-at.          *)
C10_AppTokenClaims ==
    /\ token # None =>
          LET c == token[1]
          IN /\ DOMAIN c = {"iss", "iat", "exp"}
             /\ IsDecimal(c["iss"])
             /\ ParseInt(c["iss"]) = g.appID
             /\ c["iat"] = now[1]
             /\ c["exp"] - c["iat"] = g.tokenLiveness
    /\ appToken # None =>
          LET c == appToken[1].claims
              d == (c["exp"] - c["iat"]) * Second
          IN /\ token # None
             /\ appToken[1].alg = "RS256"
             /\ DOMAIN c = {"iss", "iat", "exp"}
             /\ c["iss"] = token[1]["iss"]
             /\ c["iat"] * Second <= token[1]["iat"]
             /\ token[1]["iat"] < (c["iat"] + 1) * Second
             /\ c["exp"] * Second <= token[1]["exp"]
             /\ token[1]["exp"] < (c["exp"] + 1) * Second
             /\ g.tokenLiveness % Second = 0 => d = g.tokenLiveness
             /\ d - g.tokenLiveness < Second
             /\ g.tokenLiveness - d < Second
             /\ g.tokenLiveness <= 0 => c["exp"] <= c["iat"]
    /\ (rawKey = "rsa" /\ pc \notin {"ParseKey", "BuildToken", "Sign"}) =>
          appToken # None

\* a token signed with a negative liveness
C10_Witness ==
    /\ appToken # None
    /\ g.tokenLiveness < 0
    /\ g.appID = 12
    /\ appToken[1].claims["iss"] = <<"1", "2">>
    /\ appToken[1].claims["exp"] < appToken[1].claims["iat"]

====
